---------------------------- MODULE Spec2Model ----------------------------
(***************************************************************************)
(* State-machine model of FIR-Analysis/fir_count.py: the orchestrator      *)
(* main(), the pool of worker_ps tasks, the per-task crawl session         *)
(* fetch_counts_for_ps, sub-region discovery get_ps_for_district and the   *)
(* pure helpers they call.  The remote web application is the environment. *)
(***************************************************************************)
EXTENDS Integers, Sequences, FiniteSets, TLC

(***************************************************************************)
(* Bounds of the model.                                                    *)
(***************************************************************************)
\* number of regions enumerated (the source enumerates 38)
NumDistricts == 2
\* largest number of distinct sub-regions a discovery page offers
MaxPs == 3
\* size of the worker pool (the source sets 10): kept below MaxPs so that a
\* batch can exceed the cap
PoolCap == 2

(***************************************************************************)
(* Program constants.                                                      *)
(***************************************************************************)
DISTRICT_IDS == 1..NumDistricts
START_YEAR == 2014
END_YEAR == 2025
MAX_WORKERS == PoolCap

\* the empty string, in the integer-coded fields (tokens, option values, ids)
BLANK == -1

(***************************************************************************)
(* Text: a string the program formats or parses is a sequence of           *)
(* one-character strings.                                                  *)
(***************************************************************************)
Digit == <<"0", "1", "2", "3", "4", "5", "6", "7", "8", "9">>

DigitVal(c) == CHOOSE v \in 0..9 : Digit[v + 1] = c

\* int(text) for a text of decimal digits
RECURSIVE ParseInt(_)
ParseInt(txt) ==
    IF txt = <<>> THEN 0
    ELSE 10 * ParseInt(SubSeq(txt, 1, Len(txt) - 1)) + DigitVal(txt[Len(txt)])

\* the decimal digit of n at the place of weight w
DigitAt(n, w) == Digit[((n \div w) % 10) + 1]

\* f"{y}-{m:02d}" for a four-digit year
FormatCol(y, m) ==
    << DigitAt(y, 1000), DigitAt(y, 100), DigitAt(y, 10), DigitAt(y, 1), "-",
       DigitAt(m, 10), DigitAt(m, 1) >>

NumCols == (END_YEAR - START_YEAR + 1) * 12

\* (variant: "for m in range(1, 12)", eleven columns a year)
MonthColsShort ==
    <<>> \o [i \in 1..((END_YEAR - START_YEAR + 1) * 11) |->
                FormatCol(START_YEAR + ((i - 1) \div 11), ((i - 1) % 11) + 1)]

\* MONTH_COLS: for y in range(START_YEAR, END_YEAR + 1): for m in range(1, 13)
MONTH_COLS ==
    <<>> \o [i \in 1..NumCols |->
                FormatCol(START_YEAR + ((i - 1) \div 12), ((i - 1) % 12) + 1)]

\* map(int, col.split("-")): the index of the separator, then both parts
SplitAt(col) == CHOOSE i \in 1..Len(col) :
                    col[i] = "-" /\ \A j \in 1..(i - 1) : col[j] # "-"

ParseCol(col) ==
    << ParseInt(SubSeq(col, 1, SplitAt(col) - 1)),
       ParseInt(SubSeq(col, SplitAt(col) + 1, Len(col))) >>

\* "y, m = map(int, col.split('-'))" for every col of MONTH_COLS, in order
ColKeys == <<>> \o [i \in 1..Len(MONTH_COLS) |-> ParseCol(MONTH_COLS[i])]

(***************************************************************************)
(* Dates.  A cell of a result row is the sequence of the substrings of its *)
(* text that DATE_RE matches, in reading order; a match is                 *)
(* [d, mo, y] with d and mo the integers read and y the year's digits.     *)
(***************************************************************************)
NoDate == <<>>

IsLeap(y) == y % 4 = 0 /\ (y % 100 # 0 \/ y % 400 = 0)

\* (variant: every month has 31 days)
ThirtyOneDays(y, mo) == 31

DaysInMonth(y, mo) ==
    IF mo = 2 THEN (IF IsLeap(y) THEN 29 ELSE 28)
    ELSE IF mo \in {4, 6, 9, 11} THEN 30 ELSE 31

\* datetime(y, mo, d) raises ValueError unless this holds
ValidDate(y, mo, d) ==
    /\ y >= 1 /\ y <= 9999
    /\ mo >= 1 /\ mo <= 12
    /\ d >= 1 /\ d <= DaysInMonth(y, mo)

\* the year after "if len(y) == 2: y = '20' + y"
YearOf(m) == ParseInt(IF Len(m.y) = 2 THEN <<"2", "0">> \o m.y ELSE m.y)

\* extract_date_from_text: the first match only; NoDate for None
extract_date_from_text(cell) ==
    IF cell = <<>> THEN NoDate
    ELSE IF ValidDate(YearOf(cell[1]), cell[1].mo, cell[1].d)
         THEN <<YearOf(cell[1]), cell[1].mo, cell[1].d>>
         ELSE NoDate

(***************************************************************************)
(* The aggregation (a Counter keyed by <<year, month>>).                   *)
(***************************************************************************)
EmptyCounter == [k \in {} |-> 0]

CounterGet(c, k) == IF k \in DOMAIN c THEN c[k] ELSE 0

CounterInc(c, k) ==
    [x \in (DOMAIN c) \cup {k} |-> IF x = k THEN CounterGet(c, k) + 1 ELSE c[x]]

Countable(dt) == dt # NoDate /\ START_YEAR <= dt[1] /\ dt[1] <= END_YEAR

\* (variant: the scan of a row ends at its first date-like substring)
RECURSIVE IngestRowFirstMatch(_, _)
IngestRowFirstMatch(c, cols) ==
    IF cols = <<>> THEN c
    ELSE IF Head(cols) # <<>>
         THEN (IF Countable(extract_date_from_text(Head(cols)))
               THEN CounterInc(c, << extract_date_from_text(Head(cols))[1],
                                     extract_date_from_text(Head(cols))[2] >>)
               ELSE c)
         ELSE IngestRowFirstMatch(c, Tail(cols))

\* the inner loop over the cells of one row: count the first cell whose date
\* is valid and in range, then break
RECURSIVE IngestRow(_, _)
IngestRow(c, cols) ==
    IF cols = <<>> THEN c
    ELSE IF Countable(extract_date_from_text(Head(cols)))
         THEN CounterInc(c, << extract_date_from_text(Head(cols))[1],
                               extract_date_from_text(Head(cols))[2] >>)
         ELSE IngestRow(c, Tail(cols))

\* the outer loop over the rows of one page
RECURSIVE IngestRows(_, _)
IngestRows(c, rows) ==
    IF rows = <<>> THEN c
    ELSE IngestRows(IngestRow(c, Head(rows)), Tail(rows))

(***************************************************************************)
(* Pages.  A parsed response is a record                                   *)
(*   hid     the hidden inputs that carry a value: field name -> value     *)
(*   select  <<>> when the sub-region select is absent, else <<options>>   *)
(*   table   <<>> when table#example is absent, <<<<>>>> when it has no    *)
(*           tbody, else << <<trs>> >>, trs the rows as sequences of cells *)
(*   anchors the a/button elements: [onclick, href], each NoAct or the     *)
(*           first __doPostBack('target','argument') of the attribute      *)
(* A postback argument is <<kind, n>> for the text kind$n.                 *)
(***************************************************************************)
TokenFields == {"__VIEWSTATE", "__VIEWSTATEGENERATOR", "__EVENTVALIDATION",
                "__LASTFOCUS"}

NoAct == <<>>

Page(hid, select, table, anchors) ==
    [hid |-> hid, select |-> select, table |-> table, anchors |-> anchors]

\* extract_hidden_fields: a missing field resolves to the empty string
extract_hidden_fields(soup) ==
    [f \in TokenFields |-> IF f \in DOMAIN soup.hid THEN soup.hid[f] ELSE BLANK]

\* keep the first occurrence of every key, in order (the seen-set loops)
RECURSIVE Unique(_, _)
Unique(seq, seen) ==
    IF seq = <<>> THEN <<>>
    ELSE IF Head(seq) \in seen THEN Unique(Tail(seq), seen)
         ELSE <<Head(seq)>> \o Unique(Tail(seq), seen \cup {Head(seq)})

\* parse_ps_options: skip "" and "0", de-duplicate preserving order
parse_ps_options(soup) ==
    IF soup.select = <<>> THEN <<>>
    ELSE LET keep(v) == v # BLANK /\ v # 0
         IN Unique(SelectSeq(soup.select[1], keep), {})

\* parse_fir_rows: the rows of table#example that have at least one cell
parse_fir_rows(soup) ==
    IF soup.table = <<>> THEN <<>>
    ELSE IF soup.table[1] = <<>> THEN <<>>
    ELSE LET hasCols(tr) == tr # <<>>
         IN SelectSeq(soup.table[1][1], hasCols)

\* the (target, argument) pairs of the anchors, onclick before href
RECURSIVE AnchorActions(_)
AnchorActions(anchors) ==
    IF anchors = <<>> THEN <<>>
    ELSE (IF Head(anchors).onclick # NoAct THEN <<Head(anchors).onclick>> ELSE <<>>)
         \o (IF Head(anchors).href # NoAct THEN <<Head(anchors).href>> ELSE <<>>)
         \o AnchorActions(Tail(anchors))

\* find_postback_actions: the unique (target, argument) pairs, in order
find_postback_actions(soup) == Unique(AnchorActions(soup.anchors), {})

\* "Page$" in a
IsPageArg(a) == a[1] = "Page"

\* (variant: the page actions are not de-duplicated)
KeepAllPages(page_actions, seen_pages) == page_actions

\* keep the first action of every argument, in order (seen_pages)
RECURSIVE UniquePages(_, _)
UniquePages(page_actions, seen_pages) ==
    IF page_actions = <<>> THEN <<>>
    ELSE IF Head(page_actions)[2] \in seen_pages
         THEN UniquePages(Tail(page_actions), seen_pages)
         ELSE <<Head(page_actions)>>
              \o UniquePages(Tail(page_actions), seen_pages \cup {Head(page_actions)[2]})

\* ordered_page_actions: the page actions, de-duplicated by argument
OrderedPageActions(soup) ==
    LET isPage(act) == IsPageArg(act[2])
    IN UniquePages(SelectSeq(find_postback_actions(soup), isPage), {})

(***************************************************************************)
(* Requests.  The payload of a POST carries the event target and argument, *)
(* the four hidden-state values, the region and the sub-region selected.   *)
(***************************************************************************)
NoTokens == [f \in TokenFields |-> BLANK]

Payload(tgt, arg, hidden, district_id, ps_id, btn) ==
    [target |-> tgt, argument |-> arg,
     tokens |-> [f \in TokenFields |-> hidden[f]],
     district |-> district_id, ps |-> ps_id, btnSearch |-> btn]

\* payload of get_ps_for_district, and payload1 of fetch_counts_for_ps
Payload1(hidden, district_id) ==
    Payload("ddlDistrict", <<"", 0>>, hidden, district_id, 0, FALSE)

\* payload2: the search postback
Payload2(hidden, district_id, ps_id) ==
    Payload("", <<"", 0>>, hidden, district_id, ps_id, TRUE)

\* payload_page: one page-turn postback
PayloadPage(hidden, district_id, ps_id, act) ==
    Payload(act[1], act[2], hidden, district_id, ps_id, FALSE)

(***************************************************************************)
(* The remote application, per (region, sub-region): a site is             *)
(*   home, dd  the hidden fields present on the first page and on the      *)
(*             response to the region selection                            *)
(*   pages     the result pages [fields, table, anchors]; asked for a page *)
(*             beyond these it serves an empty page that offers the        *)
(*             page-turn action to the next page                           *)
(* The value of every hidden field of a response is the number of that     *)
(* response in its session, so the values of two responses differ.         *)
(***************************************************************************)
Stamp(fields, n) == [f \in fields |-> n]

EndlessPage(k) ==
    [fields |-> TokenFields, table |-> << << <<>> >> >>,
     anchors |-> << [onclick |-> NoAct, href |-> <<"gv", <<"Page", k + 1>> >>] >>]

SitePage(site, k) ==
    IF k \in 1..Len(site.pages) THEN site.pages[k] ELSE EndlessPage(k)

HomeResponse(site, n) == Page(Stamp(site.home, n), <<>>, <<>>, <<>>)

DistrictResponse(site, n) == Page(Stamp(site.dd, n), <<>>, <<>>, <<>>)

\* the search postback shows result page 1, a page-turn postback the page of
\* its argument
ResultResponse(site, payload, n) ==
    LET k  == IF payload.btnSearch THEN 1 ELSE payload.argument[2]
        pg == SitePage(site, k)
    IN Page(Stamp(pg.fields, n), <<>>, pg.table, pg.anchors)

ResultPageNo(payload) == IF payload.btnSearch THEN 1 ELSE payload.argument[2]

\* what the region-selection response of a discovery may hold as its select
Options(n) == <<BLANK, 0>> \o [i \in 1..n |-> i] \o (IF n > 0 THEN <<1>> ELSE <<>>)

Selects == {<<>>} \cup {<<Options(n)>> : n \in 0..MaxPs}

PsIds == 1..MaxPs

\* the selects with at most one sub-region
SmallSelects == {<<>>} \cup {<<Options(n)>> : n \in 0..1}

(***************************************************************************)
(* The state.                                                              *)
(***************************************************************************)
VARIABLES
    world,    \* the remote application: the site served for every
              \* (region, sub-region)
    mpc,      \* main: "header", "discover", "dpost", "wzero", "collect",
              \*       "write", "done"
    cur,      \* main: district_id of the loop over DISTRICT_IDS
    dsess,    \* main: the session of the running get_ps_for_district
    tasks,    \* main: ps_list of the current region, in order
    fut,      \* the futures of the current batch: state and result
    yielded,  \* the futures as_completed has handed to main
    fh,       \* the file objects open on the output for a row
    sink,     \* the lines of OUTPUT_CSV
    sess,     \* the frame of fetch_counts_for_ps of every task
    nextSid,  \* the number of requests.Session objects made so far
    found     \* observer: for every region, whether discovery succeeded and
              \* the ps_list it returned

vars == <<world, mpc, cur, dsess, tasks, fut, yielded, fh, sink, sess, nextSid,
          found>>

\* (variant: one module-level requests.Session handed to every caller)
SharedSession(n) == 1

\* make_session: a new requests.Session object, the n-th made being object n
make_session(n) == n + 1

IdleSess ==
    [pc |-> "idle", sid |-> 0, hidden |-> NoTokens, counts |-> EmptyCounter,
     acts |-> <<>>, i |-> 0,
     \* the environment's and the observer's record of the session
     served |-> 0, latest |-> NoTokens, sent |-> NoTokens, seen |-> NoTokens,
     reqs |-> <<>>, fetched |-> <<>>, failed |-> <<>>]

NoFuture == [state |-> "none", row |-> <<>>]

NoSession == [sid |-> 0, hidden |-> NoTokens]

NotFound == [ok |-> FALSE, list |-> <<>>]

(***************************************************************************)
(* fetch_counts_for_ps, one operator per step of the frame s.              *)
(***************************************************************************)
\* (variant: the search postback follows the initial GET directly)
AfterGetSkipSelect(s, soup) ==
    [s EXCEPT !.pc = "post2", !.hidden = extract_hidden_fields(soup)]

\* the initial GET succeeded: hidden
AfterGet(s, soup) ==
    [s EXCEPT !.pc = "post1", !.hidden = extract_hidden_fields(soup)]

\* the region-selection postback succeeded: hidden2
AfterPost1(s, soup2) ==
    [s EXCEPT !.pc = "post2", !.hidden = extract_hidden_fields(soup2)]

\* the search postback succeeded: hidden_res, the counts of the first page
\* and the page actions to follow
AfterSearch(s, soup_res) ==
    [s EXCEPT !.pc = "page",
              !.hidden = extract_hidden_fields(soup_res),
              !.counts = IngestRows(EmptyCounter, parse_fir_rows(soup_res)),
              !.acts = OrderedPageActions(soup_res),
              !.i = 1]

\* (variant: hidden_res is not updated after a page-turn postback)
AfterPageStale(s, soup_page) ==
    [s EXCEPT !.counts = IngestRows(@, parse_fir_rows(soup_page)),
              !.i = @ + 1]

\* (variant: hidden_res keeps its value for a field the page response omits)
AfterPageMerge(s, soup_page) ==
    [s EXCEPT !.hidden = [f \in TokenFields |->
                            IF f \in DOMAIN soup_page.hid THEN soup_page.hid[f]
                            ELSE @[f]],
              !.counts = IngestRows(@, parse_fir_rows(soup_page)),
              !.i = @ + 1]

\* (variant: the unseen page actions of every fetched page are followed too)
AfterPageFollow(s, soup_page) ==
    LET unseen(act) == \A k \in 1..Len(s.acts) : s.acts[k][2] # act[2]
    IN [s EXCEPT !.hidden = extract_hidden_fields(soup_page),
                 !.counts = IngestRows(@, parse_fir_rows(soup_page)),
                 !.acts = @ \o SelectSeq(OrderedPageActions(soup_page), unseen),
                 !.i = @ + 1]

\* a page-turn postback succeeded: hidden_res = hidden_page, its rows counted
AfterPage(s, soup_page) ==
    [s EXCEPT !.hidden = extract_hidden_fields(soup_page),
              !.counts = IngestRows(@, parse_fir_rows(soup_page)),
              !.i = @ + 1]

\* (variant: a page-turn postback that raises ends the loop)
AbortOnPageFailure(s) == [s EXCEPT !.i = Len(s.acts) + 1]

\* a page-turn postback raised: "try to continue to next"
PageFailed(s) == [s EXCEPT !.i = @ + 1]

\* the loop over ordered_page_actions is exhausted: return counts
Returns(s) == s.pc = "page" /\ s.i > Len(s.acts)

(***************************************************************************)
(* worker_ps and the rows.                                                 *)
(***************************************************************************)
\* (variant: one Counter shared by all the tasks of the batch)
SharedCounts(counts) ==
    LET keys == DOMAIN counts \cup UNION {DOMAIN sess[u].counts : u \in PsIds}
        RECURSIVE Sum(_, _)
        Sum(k, us) == IF us = {} THEN 0
                      ELSE LET u == CHOOSE x \in us : TRUE
                           IN CounterGet(sess[u].counts, k) + Sum(k, us \ {u})
    IN [k \in keys |-> CounterGet(counts, k) + Sum(k, PsIds)]

WorkerRowShared(district_id, ps_id, counts) ==
    <<district_id, ps_id>>
        \o [i \in 1..Len(ColKeys) |-> CounterGet(SharedCounts(counts), ColKeys[i])]

\* row = [district_id, ps_id] + [counts.get((y, m), 0) for col in MONTH_COLS]
WorkerRow(district_id, ps_id, counts) ==
    <<district_id, ps_id>>
        \o [i \in 1..Len(ColKeys) |-> CounterGet(counts, ColKeys[i])]

\* [district_id, ps] + [0]*len(MONTH_COLS)
ZeroRow(district_id, ps) ==
    <<district_id, ps>> \o [i \in 1..Len(MONTH_COLS) |-> 0]

Header == <<"district_id", "ps_id">> \o MONTH_COLS

(***************************************************************************)
(* What the observer records of a session: the requests issued, the tokens *)
(* each POST carried (sent) beside those of the latest response received   *)
(* before it (seen), the result pages received, the page actions that      *)
(* failed.                                                                 *)
(***************************************************************************)
SentGet(s) == [s EXCEPT !.reqs = Append(@, [kind |-> "GET", act |-> NoAct])]

SentPost(s, kind, payload) ==
    [s EXCEPT !.reqs = Append(@, [kind |-> kind,
                                  act |-> <<payload.target, payload.argument>>]),
              !.sent = payload.tokens,
              !.seen = s.latest]

Received(s, soup) ==
    [s EXCEPT !.served = @ + 1, !.latest = extract_hidden_fields(soup)]

ReceivedPage(s, soup, k) ==
    [Received(s, soup) EXCEPT !.fetched = Append(@, k)]

(***************************************************************************)
(* The pool: ThreadPoolExecutor(max_workers=MAX_WORKERS).                  *)
(***************************************************************************)
InFlight == {t \in PsIds : fut[t].state = "running"}

Pending == {t \in PsIds : fut[t].state = "pending"}

\* the work queue is first in, first out
NextQueued(t) ==
    \E k \in 1..Len(tasks) :
        /\ tasks[k] = t
        /\ \A j \in 1..(k - 1) : tasks[j] \notin Pending

\* (variant: a thread per submitted task)
PoolUnbounded(n) == TRUE

\* a worker thread is free, or may still be created
PoolHasIdleWorker(n) == n < MAX_WORKERS

\* worker_ps returns its row: the future is done
Complete(t, s, counts) ==
    /\ sess' = [sess EXCEPT ![t] = [s EXCEPT !.pc = "done"]]
    /\ fut' = [fut EXCEPT ![t] = [state |-> "done",
                                  row |-> WorkerRow(cur, t, counts)]]

Continue(t, s) ==
    /\ sess' = [sess EXCEPT ![t] = s]
    /\ UNCHANGED fut

\* a worker thread takes the task: session = make_session()
W_Start(t) ==
    /\ fut[t].state = "pending"
    /\ NextQueued(t)
    /\ PoolHasIdleWorker(Cardinality(InFlight))
    /\ fut' = [fut EXCEPT ![t].state = "running"]
    /\ sess' = [sess EXCEPT ![t] = [IdleSess EXCEPT !.pc = "get",
                                                    !.sid = make_session(nextSid)]]
    /\ nextSid' = nextSid + 1
    /\ UNCHANGED <<world, mpc, cur, dsess, tasks, yielded, fh, sink, found>>

\* s.get(BASE_URL); an error leaves fetch_counts_for_ps and worker_ps
\* substitutes Counter()
W_Get(t) ==
    /\ sess[t].pc = "get"
    /\ \E s1 \in {SentGet(sess[t])} :
       \E soup \in {HomeResponse(world.site[<<cur, t>>], s1.served + 1)} :
       \E ok \in BOOLEAN :
          IF ok
          THEN \E s2 \in {Received(AfterGet(s1, soup), soup)} : Continue(t, s2)
          ELSE Complete(t, s1, EmptyCounter)
    /\ UNCHANGED <<world, mpc, cur, dsess, tasks, yielded, fh, sink, nextSid, found>>

\* do_post(s, payload1); an error leaves fetch_counts_for_ps likewise
W_Post1(t) ==
    /\ sess[t].pc = "post1"
    /\ \E s1 \in {SentPost(sess[t], "select", Payload1(sess[t].hidden, cur))} :
       \E soup \in {DistrictResponse(world.site[<<cur, t>>], s1.served + 1)} :
       \E ok \in BOOLEAN :
          IF ok
          THEN \E s2 \in {Received(AfterPost1(s1, soup), soup)} : Continue(t, s2)
          ELSE Complete(t, s1, EmptyCounter)
    /\ UNCHANGED <<world, mpc, cur, dsess, tasks, yielded, fh, sink, nextSid, found>>

\* do_post(s, payload2); on an error fetch_counts_for_ps returns Counter()
W_Post2(t) ==
    /\ sess[t].pc = "post2"
    /\ \E pl \in {Payload2(sess[t].hidden, cur, t)} :
       \E s1 \in {SentPost(sess[t], "search", pl)} :
       \E soup \in {ResultResponse(world.site[<<cur, t>>], pl, s1.served + 1)} :
       \E ok \in BOOLEAN :
          IF ok
          THEN \E s2 \in {ReceivedPage(AfterSearch(s1, soup), soup, ResultPageNo(pl))} :
                  IF Returns(s2) THEN \E c \in {s2.counts} : Complete(t, s2, c)
                  ELSE Continue(t, s2)
          ELSE Complete(t, s1, EmptyCounter)
    /\ UNCHANGED <<world, mpc, cur, dsess, tasks, yielded, fh, sink, nextSid, found>>

\* one iteration of the loop over ordered_page_actions
W_Page(t) ==
    /\ sess[t].pc = "page"
    /\ ~Returns(sess[t])
    /\ \E pl \in {PayloadPage(sess[t].hidden, cur, t, sess[t].acts[sess[t].i])} :
       \E s1 \in {SentPost(sess[t], "page", pl)} :
       \E soup \in {ResultResponse(world.site[<<cur, t>>], pl, s1.served + 1)} :
       \E ok \in BOOLEAN :
       \E s2 \in {IF ok
                  THEN ReceivedPage(AfterPage(s1, soup), soup, ResultPageNo(pl))
                  ELSE [PageFailed(s1) EXCEPT !.failed = Append(@, sess[t].i)]} :
          IF Returns(s2) THEN \E c \in {s2.counts} : Complete(t, s2, c)
          ELSE Continue(t, s2)
    /\ UNCHANGED <<world, mpc, cur, dsess, tasks, yielded, fh, sink, nextSid, found>>

(***************************************************************************)
(* main.                                                                   *)
(***************************************************************************)
Range(seq) == {seq[k] : k \in 1..Len(seq)}

LastDistrict == NumDistricts

\* (variant: the ps_list of an earlier discovery survives the exception)
StalePsList == <<1>>

\* "except Exception: ps_list = []"
OnDiscoveryError == <<>>

\* (variant: the file object is left open)
LeakHandle(handles, h) == handles

\* leaving "with open(OUTPUT_CSV, 'a') as fh": the file object is closed
CloseHandle(handles, h) == handles \ {h}

\* (variant: the output is opened in mode "w" for every row)
WriteTruncating(lines, row) == <<Head(lines), row>>

\* writer.writerow(row) on the output opened in mode "a"
WriteAppending(lines, row) == Append(lines, row)

\* fut.result(), or the zero row main substitutes when it raises
FutureRow(t) ==
    IF fut[t].state = "raised" THEN ZeroRow(cur, t) ELSE fut[t].row

\* the next iteration of "for district_id in DISTRICT_IDS", or the end
Advance ==
    /\ IF cur = LastDistrict
       THEN mpc' = "done" /\ cur' = cur
       ELSE mpc' = "discover" /\ cur' = cur + 1
    /\ tasks' = <<>>
    /\ fut' = [t \in PsIds |-> NoFuture]
    /\ sess' = [t \in PsIds |-> IdleSess]
    /\ yielded' = {}

\* after discovery: the zero row of a region without sub-regions is opened
\* for writing, or one task per sub-region is submitted to the pool
BeginBatch(ps_list, ok) ==
    /\ found' = [found EXCEPT ![cur] = [ok |-> ok,
                                        list |-> IF ok THEN ps_list ELSE <<>>]]
    /\ dsess' = NoSession
    /\ IF ps_list = <<>>
       THEN /\ mpc' = "wzero"
            /\ fh' = fh \cup {[row |-> ZeroRow(cur, BLANK)]}
            /\ UNCHANGED <<tasks, fut, sess, yielded>>
       ELSE /\ mpc' = "collect"
            /\ tasks' = ps_list
            /\ fut' = [t \in PsIds |->
                         IF t \in Range(ps_list)
                         THEN [state |-> "pending", row |-> <<>>] ELSE NoFuture]
            /\ sess' = [t \in PsIds |-> IdleSess]
            /\ yielded' = {}
            /\ UNCHANGED fh

\* (variant: the exception of get_ps_for_district leaves main)
DiscoveryUncaught ==
    /\ mpc' = "crashed"
    /\ dsess' = NoSession
    /\ UNCHANGED <<found, tasks, fut, sess, yielded, fh>>

\* "try: ps_list = get_ps_for_district(...) except Exception: ps_list = []"
DiscoveryCaught == BeginBatch(OnDiscoveryError, FALSE)

\* the header is written to a fresh file
M_Header ==
    /\ mpc = "header"
    /\ sink' = <<Header>>
    /\ mpc' = "discover"
    /\ UNCHANGED <<world, cur, dsess, tasks, fut, yielded, fh, sess, nextSid,
                   found>>

\* get_ps_for_district: make_session() and the initial GET
M_Discover ==
    /\ mpc = "discover"
    /\ nextSid' = nextSid + 1
    /\ \E ok \in BOOLEAN :
         IF ok
         THEN /\ dsess' = [sid |-> make_session(nextSid),
                           hidden |-> extract_hidden_fields(
                                         Page(Stamp(TokenFields, 1), <<>>, <<>>, <<>>))]
              /\ mpc' = "dpost"
              /\ UNCHANGED <<tasks, fut, yielded, fh, sess, found>>
         ELSE DiscoveryCaught
    /\ UNCHANGED <<world, cur, sink>>

\* The application offers more than one sub-region for at most one region
\* of a run, whichever it is.
OfferedSelects ==
    IF \E d \in DISTRICT_IDS : Len(found[d].list) > 1 THEN SmallSelects ELSE Selects

\* get_ps_for_district: the region-selection postback and parse_ps_options
M_DiscPost ==
    /\ mpc = "dpost"
    /\ \E ok \in BOOLEAN, sel \in OfferedSelects :
         IF ok
         THEN BeginBatch(parse_ps_options(
                  Page(Stamp(TokenFields, 2), sel, <<>>, <<>>)), TRUE)
         ELSE DiscoveryCaught
    /\ UNCHANGED <<world, cur, sink, nextSid>>

\* the zero row of a region without sub-regions is written, the file closed
M_WriteZero ==
    /\ mpc = "wzero"
    /\ \E h \in fh :
         /\ sink' = WriteAppending(sink, h.row)
         /\ fh' = CloseHandle(fh, h)
    /\ Advance
    /\ UNCHANGED <<world, dsess, nextSid, found>>

\* as_completed hands main a finished future; the output is opened for its row
M_Take(t) ==
    /\ mpc = "collect"
    /\ fut[t].state \in {"done", "raised"}
    /\ t \notin yielded
    /\ yielded' = yielded \cup {t}
    /\ fh' = fh \cup {[row |-> FutureRow(t)]}
    /\ mpc' = "write"
    /\ UNCHANGED <<world, cur, dsess, tasks, fut, sink, sess, nextSid, found>>

\* (variant: main leaves the executor block after the first row)
BatchDoneEarly == yielded # {}

\* (variant: main leaves the executor block once every task has started)
BatchDoneAllStarted == Pending = {}

\* as_completed has handed over every future of the batch
BatchDone == yielded = Range(tasks)

\* the row is written and the file closed; after the last future of the
\* batch the pool is shut down and main goes to the next region
M_Write ==
    /\ mpc = "write"
    /\ \E h \in fh :
         /\ sink' = WriteAppending(sink, h.row)
         /\ fh' = CloseHandle(fh, h)
    /\ IF BatchDone
       THEN Advance
       ELSE mpc' = "collect" /\ UNCHANGED <<cur, tasks, fut, sess, yielded>>
    /\ UNCHANGED <<world, dsess, nextSid, found>>

(***************************************************************************)
(* The sites of the orchestration: sub-region 1 has two result pages, the  *)
(* others one; the dates differ by region and sub-region.                  *)
(***************************************************************************)
DateCell(d, mo, y) == << [d |-> d, mo |-> mo, y |-> y] >>

TextCell == <<>>

\* table#example with a tbody of the rows trs
Table(trs) == << <<trs>> >>

Link(k) == [onclick |-> NoAct, href |-> <<"gv", <<"Page", k>> >>]

FixedSite(district_id, ps_id) ==
    LET first == [fields |-> TokenFields,
                  table |-> Table(<< << TextCell,
                                        DateCell(5, ps_id, <<"2", "0", "2", Digit[district_id + 1]>>) >> >>),
                  anchors |-> IF ps_id = 1 THEN <<Link(2)>> ELSE <<>>]
        second == [fields |-> TokenFields,
                   table |-> Table(<< << DateCell(31, 12, <<"2", "1">>) >> >>),
                   anchors |-> <<>>]
    IN [home |-> TokenFields, dd |-> TokenFields,
        pages |-> IF ps_id = 1 THEN <<first, second>> ELSE <<first>>]

FixedSites == [p \in DISTRICT_IDS \X PsIds |-> FixedSite(p[1], p[2])]

FixedWorld == [site |-> FixedSites]

(***************************************************************************)
(* The orchestration: a whole run of main.                                 *)
(***************************************************************************)
Init ==
    /\ world = FixedWorld
    /\ mpc = "header"
    /\ cur = 1
    /\ dsess = NoSession
    /\ tasks = <<>>
    /\ fut = [t \in PsIds |-> NoFuture]
    /\ yielded = {}
    /\ fh = {}
    /\ sink = <<>>
    /\ sess = [t \in PsIds |-> IdleSess]
    /\ nextSid = 0
    /\ found = [d \in DISTRICT_IDS |-> NotFound]

Worker(t) == W_Start(t) \/ W_Get(t) \/ W_Post1(t) \/ W_Post2(t) \/ W_Page(t)

Next ==
    \/ M_Header
    \/ M_Discover
    \/ M_DiscPost
    \/ M_WriteZero
    \/ \E t \in PsIds : M_Take(t)
    \/ M_Write
    \/ \E t \in PsIds : W_Start(t)
    \/ \E t \in PsIds : W_Get(t)
    \/ \E t \in PsIds : W_Post1(t)
    \/ \E t \in PsIds : W_Post2(t)
    \/ \E t \in PsIds : W_Page(t)

Spec == Init /\ [][Next]_vars

(***************************************************************************)
(* One batch under fair scheduling.  main has written the zero rows of the *)
(* regions before the last, whose discovery failed, and has submitted the  *)
(* tasks of the last region; every thread that can take a step eventually  *)
(* takes one, and every request returns or fails.                          *)
(***************************************************************************)
RECURSIVE ZeroRowsUpTo(_)
ZeroRowsUpTo(d) ==
    IF d = 0 THEN <<>> ELSE Append(ZeroRowsUpTo(d - 1), ZeroRow(d, BLANK))

BatchInit ==
    /\ world = FixedWorld
    /\ mpc = "collect"
    /\ cur = LastDistrict
    /\ dsess = NoSession
    /\ \E n \in 1..MaxPs :
         /\ tasks = [k \in 1..n |-> k]
         /\ fut = [t \in PsIds |-> IF t <= n THEN [state |-> "pending", row |-> <<>>]
                                   ELSE NoFuture]
         /\ found = [d \in DISTRICT_IDS |->
                       IF d = LastDistrict THEN [ok |-> TRUE, list |-> [k \in 1..n |-> k]]
                       ELSE NotFound]
    /\ yielded = {}
    /\ fh = {}
    /\ sink = <<Header>> \o ZeroRowsUpTo(LastDistrict - 1)
    /\ sess = [t \in PsIds |-> IdleSess]
    /\ nextSid = LastDistrict

BatchNext ==
    \/ \E t \in PsIds : M_Take(t)
    \/ M_Write
    \/ \E t \in PsIds : W_Start(t)
    \/ \E t \in PsIds : W_Get(t)
    \/ \E t \in PsIds : W_Post1(t)
    \/ \E t \in PsIds : W_Post2(t)
    \/ \E t \in PsIds : W_Page(t)

FairBatchSpec ==
    /\ BatchInit /\ [][BatchNext]_vars
    /\ WF_vars((\E t \in PsIds : M_Take(t)) \/ M_Write)
    /\ \A t \in PsIds : WF_vars(Worker(t))

(***************************************************************************)
(* One crawl session against any site of a family: up to MaxPages result   *)
(* pages, page k holding one record dated in month k and offering          *)
(*   "none"     no page-turn action                                        *)
(*   "next"     the action to page k+1 (on the last page: to a page the    *)
(*              application goes on serving, each offering its successor)  *)
(*   "forward"  the actions to all later pages                             *)
(*   "others"   the actions to all other pages                             *)
(***************************************************************************)
MaxPages == 3

LinkChoices == {"none", "next", "forward", "others"}

AnchorsFor(c, k, n) ==
    CASE c = "none" -> <<>>
      [] c = "next" -> <<Link(k + 1)>>
      [] c = "forward" -> [j \in 1..(n - k) |-> Link(k + j)]
      [] c = "others" -> [j \in 1..(n - 1) |-> Link(IF j < k THEN j ELSE j + 1)]

PagingSite(n, ch) ==
    [home |-> TokenFields, dd |-> TokenFields,
     pages |-> [k \in 1..n |->
                  [fields |-> TokenFields,
                   table |-> Table(<< << TextCell,
                                         DateCell(1, k, <<"2", "0", "2", "0">>) >> >>),
                   anchors |-> AnchorsFor(ch[k], k, n)]]]

PagingSites ==
    UNION {{PagingSite(n, ch) : ch \in [1..n -> LinkChoices]} : n \in 1..MaxPages}

\* main has discovered sub-region 1 of region 1 and submitted its task
PagingInit ==
    /\ \E site \in PagingSites :
         world = [site |-> [p \in DISTRICT_IDS \X PsIds |->
                              IF p = <<1, 1>> THEN site ELSE FixedSite(p[1], p[2])]]
    /\ mpc = "collect"
    /\ cur = 1
    /\ dsess = NoSession
    /\ tasks = <<1>>
    /\ fut = [t \in PsIds |-> IF t = 1 THEN [state |-> "pending", row |-> <<>>]
                              ELSE NoFuture]
    /\ yielded = {}
    /\ fh = {}
    /\ sink = <<Header>>
    /\ sess = [t \in PsIds |-> IdleSess]
    /\ nextSid = 1
    /\ found = [d \in DISTRICT_IDS |->
                  IF d = 1 THEN [ok |-> TRUE, list |-> <<1>>] ELSE NotFound]

PagingNext ==
    \/ \E t \in PsIds : W_Start(t)
    \/ \E t \in PsIds : W_Get(t)
    \/ \E t \in PsIds : W_Post1(t)
    \/ \E t \in PsIds : W_Post2(t)
    \/ \E t \in PsIds : W_Page(t)

PagingSpec == PagingInit /\ [][PagingNext]_vars

(***************************************************************************)
(* Vocabulary of the properties.                                           *)
(***************************************************************************)
SiteOf(t) == world.site[<<cur, t>>]

\* the number of fields of a data row
RowWidth == 2 + (END_YEAR - START_YEAR + 1) * 12

\* the (year, month) of the i-th month column, in chronological order
BucketOf(i) == <<START_YEAR + ((i - 1) \div 12), ((i - 1) % 12) + 1>>

\* the counts of the records of the result pages ks of a site
RECURSIVE PageCounts(_, _)
PageCounts(site, ks) ==
    IF ks = <<>> THEN EmptyCounter
    ELSE IngestRows(PageCounts(site, SubSeq(ks, 1, Len(ks) - 1)),
                    parse_fir_rows(Page(<<>>, <<>>, SitePage(site, ks[Len(ks)]).table, <<>>)))

DataRows == SubSeq(sink, 2, Len(sink))

RowsOfRegion(d) == LET ofRegion(r) == r[1] = d IN SelectSeq(DataRows, ofRegion)

\* the rows handed to the sink or about to be: written, or open for writing
EmittedRows == Range(DataRows) \cup {h.row : h \in fh}

Finished(t) == fut[t].state = "done"

\* the page-turn postbacks a session has issued, as (target, argument)
PagePosts(t) ==
    LET isPage(r) == r.kind = "page"
        posts == SelectSeq(sess[t].reqs, isPage)
    IN [k \in 1..Len(posts) |-> posts[k].act]

\* no request of the session has failed
Clean(t) == sess[t].served = Len(sess[t].reqs)

\* the first request of the session failed already
Broken(t) == sess[t].served = 0 /\ sess[t].reqs # <<>>

\* C1: every data row handed to the sink has region id, sub-region id and
\* one count per month column, 2 + (END_YEAR-START_YEAR+1)*12 fields in all;
\* every count is a natural number; the i-th count of a task's row is the
\* number of records its session counted in the i-th month in chronological
\* order, so zero where it counted none.
C1_RowShape ==
    /\ \A r \in EmittedRows :
         /\ Len(r) = RowWidth
         /\ r[1] \in DISTRICT_IDS
         /\ \A i \in 3..Len(r) : r[i] \in Nat
    /\ \A t \in PsIds :
         Finished(t) =>
            /\ Len(fut[t].row) = RowWidth
            /\ fut[t].row[1] = cur /\ fut[t].row[2] = t
            /\ LET counted == PageCounts(SiteOf(t), sess[t].fetched)
               IN \A i \in 1..(RowWidth - 2) :
                     fut[t].row[2 + i] = CounterGet(counted, BucketOf(i))

\* a written row with a non-zero count beside a zero row of a failed task
C1_Witness ==
    /\ \E r \in Range(DataRows) : \E i \in 3..Len(r) : r[i] > 0
    /\ \E r \in Range(DataRows) : r[2] # BLANK /\ \A i \in 3..Len(r) : r[i] = 0
    /\ \E r \in Range(DataRows) : r[2] = BLANK

\* C2: in a batch, a task whose requests fail from the first one on gives
\* the zero row with its own region and sub-region ids; a task none of whose
\* requests failed gives the counts of all the pages of its site, whatever
\* happened to the other tasks; and every future main has taken is written,
\* so that a finished region has a row for each of its sub-regions.
C2_FailureIsolation ==
    /\ \A t \in PsIds :
         /\ (Finished(t) /\ Broken(t)) => fut[t].row = ZeroRow(cur, t)
         /\ (Finished(t) /\ Clean(t)) =>
               LET all == PageCounts(SiteOf(t),
                                     [k \in 1..Len(SiteOf(t).pages) |-> k])
               IN \A i \in 1..(RowWidth - 2) :
                     fut[t].row[2 + i] = CounterGet(all, BucketOf(i))
         /\ (t \in yielded) => fut[t].row \in EmittedRows
    /\ \A d \in DISTRICT_IDS :
         (d < cur \/ mpc = "done") =>
            \A ps \in Range(found[d].list) :
               \E r \in Range(RowsOfRegion(d)) : r[2] = ps

\* a failed task's zero row and a clean sibling's non-zero row, both written
C2_Witness ==
    \E t, u \in PsIds :
        /\ t # u
        /\ Finished(t) /\ Broken(t) /\ Finished(u) /\ Clean(u)
        /\ fut[t].row \in Range(DataRows) /\ fut[u].row \in Range(DataRows)
        /\ \E i \in 3..RowWidth : fut[u].row[i] > 0

\* C3 as claimed: after the first failed page-turn postback the session
\* issues no further page-turn postback, and returns the counts of the
\* pages fetched before that failure.
C3_AbortsAfterFailure ==
    \A t \in PsIds :
        sess[t].failed # <<>> =>
            /\ Len(PagePosts(t)) <= sess[t].failed[1]
            /\ Finished(t) =>
                 sess[t].counts =
                    PageCounts(SiteOf(t), SubSeq(sess[t].fetched, 1, sess[t].failed[1]))

\* C3 as amended: a failed page-turn postback skips that page only.  The
\* session posts every page action found on the first page once, in order,
\* whether or not an earlier one failed, and the counts it holds and returns
\* are those of all the pages it fetched (kept, never reset).
C3_SkipsFailedPage ==
    \A t \in PsIds :
        (sess[t].pc \in {"page", "done"} /\ sess[t].fetched # <<>>) =>
            /\ PagePosts(t) = SubSeq(sess[t].acts, 1, sess[t].i - 1)
            /\ sess[t].counts = PageCounts(SiteOf(t), sess[t].fetched)
            /\ Finished(t) =>
                 /\ sess[t].i = Len(sess[t].acts) + 1
                 /\ fut[t].row = WorkerRow(cur, t, sess[t].counts)

\* a finished session whose first page-turn postback failed and that fetched
\* a page after it
C3_Witness ==
    \E t \in PsIds :
        /\ Finished(t)
        /\ sess[t].failed # <<>> /\ sess[t].failed[1] = 1
        /\ Len(sess[t].fetched) >= 2
        /\ sess[t].counts # PageCounts(SiteOf(t), <<1>>)

\* the numbers of the pages a result page offers page-turn actions to
PageLinks(pg) ==
    {act[2][2] : act \in {a \in Range(AnchorActions(pg.anchors)) : IsPageArg(a[2])}}

\* n result pages, the last offering no page-turn action, every later page
\* offered by some earlier page
Exhaustible(site) ==
    LET n == Len(site.pages)
    IN /\ PageLinks(site.pages[n]) = {}
       /\ \A k \in 1..n : PageLinks(site.pages[k]) \subseteq 1..n
       /\ \A k \in 2..n : \E j \in 1..(k - 1) : k \in PageLinks(site.pages[j])

\* C4 as claimed: against n result pages of which the last offers no
\* page-turn action, a session none of whose requests fails fetches each of
\* the n pages exactly once before it returns.
C4_VisitsEveryPage ==
    \A t \in PsIds :
        (Finished(t) /\ Clean(t) /\ sess[t].fetched # <<>> /\ Exhaustible(SiteOf(t))) =>
            /\ Len(sess[t].fetched) = Len(SiteOf(t).pages)
            /\ Range(sess[t].fetched) = 1..Len(SiteOf(t).pages)

\* every result page offers the page-turn action to its successor, which no
\* earlier page offered
OffersNext(site) ==
    \A k \in 1..Len(site.pages) :
        /\ (k + 1) \in PageLinks(site.pages[k])
        /\ \A j \in 1..(k - 1) : (k + 1) \notin PageLinks(site.pages[j])

\* C5 as claimed: against an application whose every result page offers a
\* page-turn action not seen before, the pagination loop, once entered,
\* never ends.
C5_NeverTerminates ==
    \A t \in PsIds :
        (OffersNext(SiteOf(t)) /\ sess[t].fetched # <<>>) => ~Finished(t)

\* C6: at most MAX_WORKERS tasks are in flight at any time, and every task
\* submitted to the pool is eventually run.
C6_PoolBound ==
    /\ [](Cardinality(InFlight) <= MAX_WORKERS)
    /\ \A t \in PsIds : (fut[t].state = "pending") ~> (fut[t].state = "running")

\* the pool is full while a submitted task waits
C6_Witness == Cardinality(InFlight) = MAX_WORKERS /\ Pending # {}

\* C7: at most one file object is open on the output for a row at any time,
\* and only while main writes; the sink is the header followed by whole rows.
C7_WritesExclusive ==
    /\ Cardinality(fh) <= 1
    /\ fh # {} => mpc \in {"write", "wzero"}
    /\ sink # <<>> => sink[1] = Header
    /\ \A k \in 2..Len(sink) : Len(sink[k]) = Len(Header)

\* a row is being written while a task runs and another finished row waits
C7_Witness ==
    /\ fh # {}
    /\ InFlight # {}
    /\ \E t \in PsIds : Finished(t) /\ t \notin yielded
    /\ Len(sink) >= 2

\* C8: every POST of a session carries the four hidden values of the latest
\* response the session had received when the POST was sent.
C8_TokenFreshness ==
    \A t \in PsIds :
        Len(sess[t].reqs) >= 2 => sess[t].sent = sess[t].seen

\* a second page-turn postback carrying the values of the first page-turn
\* response, the fourth response of the session
C8_Witness ==
    \E t \in PsIds :
        /\ Len(PagePosts(t)) >= 2
        /\ sess[t].failed = <<>>
        /\ sess[t].sent = [f \in TokenFields |-> 4]

\* C9: every task of a batch has a requests.Session of its own, made for
\* it, and a discovery has one of its own, made for it, that no task uses.
C9_SessionOwnership ==
    /\ \A t \in PsIds :
         sess[t].pc # "idle" => sess[t].sid \in 1..nextSid
    /\ \A t, u \in PsIds :
         (t # u /\ sess[t].pc # "idle" /\ sess[u].pc # "idle") =>
            sess[t].sid # sess[u].sid
    /\ mpc = "dpost" =>
         /\ dsess.sid = nextSid
         /\ \A t \in PsIds : sess[t].pc = "idle"

\* two tasks in flight at once, each past its first response
C9_Witness ==
    \E t, u \in InFlight :
        t # u /\ sess[t].served >= 1 /\ sess[u].served >= 1

\* a region is handled once main has gone past it
Handled(d) == d < cur \/ mpc = "done"

C10_Inv ==
    /\ \A d \in DISTRICT_IDS :
         (Handled(d) /\ found[d].list = <<>>) =>
            RowsOfRegion(d) = <<ZeroRow(d, BLANK)>>
    /\ mpc = "wzero" =>
         /\ found[cur].list = <<>>
         /\ fh = {[row |-> ZeroRow(cur, BLANK)]}
         /\ RowsOfRegion(cur) = <<>>
         /\ \A t \in PsIds : fut[t].state = "none"

C10_Step ==
    mpc = "wzero" =>
        IF cur = LastDistrict THEN mpc' = "done"
        ELSE mpc' = "discover" /\ cur' = cur + 1

\* C10: a region whose discovery failed or returned no sub-region gets
\* exactly one row, zero-filled and with an empty sub-region field; no task
\* is dispatched for it; and from there main goes on to the next region, or
\* ends the run after the last one.
C10_RegionDegradation == []C10_Inv /\ [][C10_Step]_vars

\* after a failed discovery of region 1 and its zero row, tasks of region 2
\* are in flight
C10_Witness ==
    /\ cur = 2
    /\ ~found[1].ok
    /\ RowsOfRegion(1) = <<ZeroRow(1, BLANK)>>
    /\ InFlight # {}


(***************************************************************************)
(* One crawl session per site of a family of sites: main has discovered    *)
(* sub-region 1 of region 1 and submitted its task.                        *)
(***************************************************************************)
SessionInit(sites) ==
    /\ \E site \in sites :
         world = [site |-> [p \in DISTRICT_IDS \X PsIds |->
                              IF p = <<1, 1>> THEN site ELSE FixedSite(p[1], p[2])]]
    /\ mpc = "collect"
    /\ cur = 1
    /\ dsess = NoSession
    /\ tasks = <<1>>
    /\ fut = [t \in PsIds |-> IF t = 1 THEN [state |-> "pending", row |-> <<>>]
                              ELSE NoFuture]
    /\ yielded = {}
    /\ fh = {}
    /\ sink = <<Header>>
    /\ sess = [t \in PsIds |-> IdleSess]
    /\ nextSid = 1
    /\ found = [d \in DISTRICT_IDS |->
                  IF d = 1 THEN [ok |-> TRUE, list |-> <<1>>] ELSE NotFound]

(***************************************************************************)
(* Result rows with date-like text.  The site has two result pages of one  *)
(* row each: on the first a row of one or two cells, each cell holding no  *)
(* date-like substring, one, or one followed by 05-03-2020, beside the     *)
(* action to page 2; on the second a row holding 05-03-2020 alone.         *)
(***************************************************************************)
GoodMatch == [d |-> 5, mo |-> 3, y |-> <<"2", "0", "2", "0">>]

Matches ==
    { GoodMatch,
      [d |-> 7,  mo |-> 3,  y |-> <<"2", "1">>],
      [d |-> 1,  mo |-> 1,  y |-> <<"1", "4">>],
      [d |-> 31, mo |-> 12, y |-> <<"2", "0", "2", "5">>],
      [d |-> 1,  mo |-> 1,  y |-> <<"2", "0", "1", "3">>],
      [d |-> 1,  mo |-> 1,  y |-> <<"2", "6">>],
      [d |-> 31, mo |-> 4,  y |-> <<"2", "0", "2", "0">>],
      [d |-> 29, mo |-> 2,  y |-> <<"2", "0", "2", "1">>],
      [d |-> 29, mo |-> 2,  y |-> <<"2", "4">>],
      [d |-> 1,  mo |-> 13, y |-> <<"2", "0", "2", "0">>],
      [d |-> 0,  mo |-> 5,  y |-> <<"2", "0", "2", "0">>],
      [d |-> 1,  mo |-> 1,  y |-> <<"0", "0", "0", "0">>],
      [d |-> 1,  mo |-> 1,  y |-> <<"2", "0", "2">>] }

Cells == {<<>>} \cup {<<m>> : m \in Matches} \cup {<<m, GoodMatch>> : m \in Matches}

CellRows == {<<c>> : c \in Cells} \cup {<<c1, c2>> : c1, c2 \in Cells}

DateSite(row) ==
    [home |-> TokenFields, dd |-> TokenFields,
     pages |-> << [fields |-> TokenFields,
                   table |-> Table(<<row>>),
                   anchors |-> <<Link(2)>>],
                  [fields |-> TokenFields,
                   table |-> Table(<< << <<GoodMatch>> >> >>),
                   anchors |-> <<>>] >>]

DateSites == {DateSite(row) : row \in CellRows}

DatesInit == SessionInit(DateSites)

DatesSpec == DatesInit /\ [][PagingNext]_vars

(***************************************************************************)
(* Vocabulary of the properties about dates.                               *)
(***************************************************************************)
\* the year a match denotes, a two-digit year yy being 2000 + yy
YearRead(m) == IF Len(m.y) = 2 THEN 2000 + ParseInt(m.y) ELSE ParseInt(m.y)

MonthLengths == <<31, 28, 31, 30, 31, 30, 31, 31, 30, 31, 30, 31>>

\* the match denotes a day of the calendar
RealDate(m) ==
    LET y == YearRead(m)
        leap == (y % 4 = 0 /\ y % 100 # 0) \/ y % 400 = 0
    IN /\ y \in 1..9999
       /\ m.mo \in 1..12
       /\ m.d >= 1
       /\ m.d <= MonthLengths[m.mo] + (IF m.mo = 2 /\ leap THEN 1 ELSE 0)

InYears(m) == YearRead(m) \in START_YEAR..END_YEAR

Buckets == (START_YEAR..END_YEAR) \X (1..12)

\* the rows of the result pages ks of a site, in the order of ks
RECURSIVE RowsOfPages(_, _)
RowsOfPages(site, ks) ==
    IF ks = <<>> THEN <<>>
    ELSE site.pages[Head(ks)].table[1][1] \o RowsOfPages(site, Tail(ks))

\* the rows of the result pages the session of task t has received
FetchedRows(t) == RowsOfPages(SiteOf(t), sess[t].fetched)

\* the cells of a row that hold a date-like substring
MatchCells(row) == {k \in 1..Len(row) : row[k] # <<>>}

\* the cells of a row whose first date-like substring is a real date of the
\* configured years
CountableCells(row) ==
    {k \in MatchCells(row) : RealDate(row[k][1]) /\ InYears(row[k][1])}

Least(S) == CHOOSE k \in S : \A j \in S : k <= j

\* a row is counted in bucket b when its first date-like substring is a real
\* date of the configured years, of bucket b
CountedAtFirstMatch(row, b) ==
    /\ MatchCells(row) # {}
    /\ Least(MatchCells(row)) \in CountableCells(row)
    /\ b = <<YearRead(row[Least(MatchCells(row))][1]), row[Least(MatchCells(row))][1].mo>>

\* a row is counted in bucket b when the first of its cells whose first
\* date-like substring is a real date of the configured years has bucket b
CountedAtFirstCountable(row, b) ==
    /\ CountableCells(row) # {}
    /\ b = <<YearRead(row[Least(CountableCells(row))][1]),
             row[Least(CountableCells(row))][1].mo>>

\* a session that has returned after its search succeeded
SearchedDone(t) == Finished(t) /\ sess[t].fetched # <<>>

\* C11 as claimed: a row is counted by its first date-like substring alone,
\* in that date's bucket when it is a real date of the configured years and
\* not at all otherwise.
C11_StopsAtFirstMatch ==
    \A t \in PsIds :
        SearchedDone(t) =>
            \A b \in Buckets :
                CounterGet(sess[t].counts, b) =
                    Cardinality({r \in 1..Len(FetchedRows(t)) :
                                    CountedAtFirstMatch(FetchedRows(t)[r], b)})

\* C11 as amended: the cells of a row are scanned in order, each by its
\* first date-like substring alone, and the scan stops at the first cell
\* where that is a real date of the configured years; the row adds one to
\* that date's bucket, and nothing when it has no such cell.  A row adds at
\* most one, to one bucket.
C11_StopsAtFirstCountable ==
    \A t \in PsIds :
        SearchedDone(t) =>
            /\ DOMAIN sess[t].counts \subseteq Buckets
            /\ \A b \in Buckets :
                 CounterGet(sess[t].counts, b) =
                    Cardinality({r \in 1..Len(FetchedRows(t)) :
                                    CountedAtFirstCountable(FetchedRows(t)[r], b)})

\* a row whose first cell reads 01-01-2013 and whose second reads 07-03-21
\* has been counted in March 2021
C11_Witness ==
    \E t \in PsIds :
        /\ SearchedDone(t)
        /\ Len(FetchedRows(t)[1]) = 2
        /\ FetchedRows(t)[1][1] = << [d |-> 1, mo |-> 1, y |-> <<"2", "0", "1", "3">>] >>
        /\ FetchedRows(t)[1][2] = << [d |-> 7, mo |-> 3, y |-> <<"2", "1">>] >>
        /\ CounterGet(sess[t].counts, <<2021, 3>>) = 1

(***************************************************************************)
(* Result pages that repeat page-turn actions.  The first result page has  *)
(* up to MaxAnchors anchors, each with an onclick and an href that hold no *)
(* postback or one of five; pages 2 and 3 hold one record and no anchor.   *)
(***************************************************************************)
MaxAnchors == 2

OfferedActions ==
    { NoAct,
      <<"gv", <<"Page", 2>> >>, <<"pager", <<"Page", 2>> >>,
      <<"gv", <<"Page", 3>> >>, <<"gv", <<"Sort", 2>> >> }

Anchors == [onclick : OfferedActions, href : OfferedActions]

AnchorSeqs == UNION {[1..n -> Anchors] : n \in 0..MaxAnchors}

RepeatSite(anchors) ==
    [home |-> TokenFields, dd |-> TokenFields,
     pages |-> [k \in 1..3 |->
                  [fields |-> TokenFields,
                   table |-> Table(<< << DateCell(1, k, <<"2", "0", "2", "0">>) >> >>),
                   anchors |-> IF k = 1 THEN anchors ELSE <<>>]]]

RepeatSites == {RepeatSite(anchors) : anchors \in AnchorSeqs}

RepeatInit == SessionInit(RepeatSites)

RepeatSpec == RepeatInit /\ [][PagingNext]_vars

\* the attributes of the anchors of the first result page in document order,
\* the onclick of an anchor before its href
Discovered(t) ==
    LET anchors == SiteOf(t).pages[1].anchors
    IN [p \in 1..(2 * Len(anchors)) |->
          IF p % 2 = 1 THEN anchors[(p + 1) \div 2].onclick
          ELSE anchors[p \div 2].href]

\* the page-turn arguments the first result page offers
PageArgs(t) ==
    {Discovered(t)[p][2] : p \in {q \in DOMAIN Discovered(t) :
                                     /\ Discovered(t)[q] # NoAct
                                     /\ Discovered(t)[q][2][1] = "Page"}}

\* where an argument is first discovered
FirstAt(t, arg) ==
    Least({p \in DOMAIN Discovered(t) :
              Discovered(t)[p] # NoAct /\ Discovered(t)[p][2] = arg})

\* C12: the page-turn postbacks of a session carry page-turn arguments of
\* the first result page, each argument at most once and with the target it
\* was first discovered with, in the order of first discovery; a session
\* that returns after its search succeeded has issued exactly one for every
\* such argument.
C12_PageTurnDedup ==
    \A t \in PsIds :
        sess[t].fetched # <<>> =>
            LET posts == PagePosts(t)
            IN /\ \A k \in 1..Len(posts) :
                    /\ posts[k][2] \in PageArgs(t)
                    /\ posts[k] = Discovered(t)[FirstAt(t, posts[k][2])]
               /\ \A k, l \in 1..Len(posts) :
                    k < l => FirstAt(t, posts[k][2]) < FirstAt(t, posts[l][2])
               /\ Finished(t) => Len(posts) = Cardinality(PageArgs(t))

\* Page$2 is offered by two targets, the second of them before Page$3, and
\* the session has returned after two page-turn postbacks
C12_Witness ==
    \E t \in PsIds :
        /\ Finished(t)
        /\ Len(Discovered(t)) = 4
        /\ Discovered(t)[1] = <<"pager", <<"Page", 2>> >>
        /\ Discovered(t)[2] = <<"gv", <<"Page", 2>> >>
        /\ Discovered(t)[3] = <<"pager", <<"Page", 2>> >>
        /\ Discovered(t)[4] = <<"gv", <<"Page", 3>> >>
        /\ PagePosts(t) = << <<"pager", <<"Page", 2>> >>, <<"gv", <<"Page", 3>> >> >>

\* how many rows of region d the sink holds for sub-region ps
RowCount(d, ps) ==
    Cardinality({k \in 1..Len(RowsOfRegion(d)) : RowsOfRegion(d)[k][2] = ps})

\* C13: when main has finished, the sink is the header followed by exactly
\* one row for every discovered (region, sub-region), exactly one row with
\* an empty sub-region field for every region without a discovered
\* sub-region, and no other row.
C13_RowCompleteness ==
    mpc = "done" =>
        /\ sink[1] = Header
        /\ \A k \in 1..Len(DataRows) : DataRows[k][1] \in DISTRICT_IDS
        /\ \A d \in DISTRICT_IDS :
             IF found[d].list = <<>>
             THEN /\ RowCount(d, BLANK) = 1
                  /\ Len(RowsOfRegion(d)) = 1
             ELSE /\ \A ps \in Range(found[d].list) : RowCount(d, ps) = 1
                  /\ \A k \in 1..Len(RowsOfRegion(d)) :
                        RowsOfRegion(d)[k][2] \in Range(found[d].list)

\* a finished run with a region of three sub-regions whose rows were written
\* out of submission order, one of them zero-filled beside a non-zero one,
\* and a region without sub-regions
C13_Witness ==
    /\ mpc = "done"
    /\ \E d \in DISTRICT_IDS : found[d].list = <<>>
    /\ \E d \in DISTRICT_IDS :
         /\ Len(found[d].list) = 3
         /\ RowsOfRegion(d)[1][2] # found[d].list[1]
         /\ \E k \in 1..3 : RowsOfRegion(d)[k] = ZeroRow(d, RowsOfRegion(d)[k][2])
         /\ \E k \in 1..3 : RowsOfRegion(d)[k] # ZeroRow(d, RowsOfRegion(d)[k][2])

\* the futures main has taken whose row is not yet in the sink
Unwritten == {t \in yielded : FutureRow(t) \notin Range(DataRows)}

C14_Inv ==
    /\ sink # <<>> => sink[1] = Header
    /\ (mpc # "header") => sink # <<>>
    /\ Cardinality(Unwritten) <= 1
    /\ Unwritten # {} => (mpc = "write" /\ fh = {[row |-> FutureRow(t)] : t \in Unwritten})
    /\ fh # {} => mpc \in {"write", "wzero"}

C14_Step ==
    /\ Len(sink') >= Len(sink)
    /\ SubSeq(sink', 1, Len(sink)) = sink
    /\ sink' # sink =>
          \/ sink = <<>> /\ sink' = <<Header>>
          \/ \E h \in fh : sink' = Append(sink, h.row)
    /\ (fh # {} /\ mpc' # mpc) =>
          (fh' = {} /\ \E h \in fh : sink' = Append(sink, h.row))

FirstMatches(rows) ==
    UNION {{rows[r][k][1] : k \in MatchCells(rows[r])} : r \in 1..Len(rows)}

\* C15: every bucket a session has counted in is the (year, month) of the
\* first date-like substring of some cell that denotes a day of the calendar,
\* a two-digit year yy read as 2000 + yy, in a year from START_YEAR to
\* END_YEAR; and a date that is not of the calendar does not end the
\* aggregation: the record of the page fetched next is counted all the same.
C15_DateValidity ==
    \A t \in PsIds :
        SearchedDone(t) =>
            /\ \A b \in DOMAIN sess[t].counts :
                 /\ sess[t].counts[b] > 0
                 /\ \E m \in FirstMatches(FetchedRows(t)) :
                       /\ RealDate(m)
                       /\ InYears(m)
                       /\ b = <<YearRead(m), m.mo>>
            /\ 2 \in Range(sess[t].fetched) =>
                  CounterGet(sess[t].counts, <<YearRead(GoodMatch), GoodMatch.mo>>) >= 1
            /\ fut[t].row = WorkerRow(cur, t, sess[t].counts)

\* a row reading 31-04-2020 and then 29-02-24 has been counted in February
\* 2024 and not in April 2020
C15_Witness ==
    \E t \in PsIds :
        /\ SearchedDone(t)
        /\ FetchedRows(t)[1] =
              << << [d |-> 31, mo |-> 4, y |-> <<"2", "0", "2", "0">>] >>,
                 << [d |-> 29, mo |-> 2, y |-> <<"2", "4">>] >> >>
        /\ CounterGet(sess[t].counts, <<2024, 2>>) = 1
        /\ CounterGet(sess[t].counts, <<2020, 4>>) = 0

\* the kinds of the requests of a session of n requests when they are issued
\* in order
KindsInOrder(n) ==
    [k \in 1..n |-> CASE k = 1 -> "GET" [] k = 2 -> "select" [] k = 3 -> "search"
                      [] OTHER -> "page"]

\* C16: the requests of a session are the initial GET, the region-selection
\* postback, the search postback and then page-turn postbacks, in this
\* order; each of the first three is issued only after all the requests
\* before it were answered, and a page-turn postback only after the search
\* postback was answered with the first result page; the page-turn postbacks
\* follow the order in which the first result page offers them; and the
\* k-th request of a session without a failure carries the hidden values of
\* response k-1.
C16_RequestOrder ==
    \A t \in PsIds :
        LET n == Len(sess[t].reqs)
        IN /\ [k \in 1..n |-> sess[t].reqs[k].kind] = KindsInOrder(n)
           /\ sess[t].served <= n
           /\ n <= 3 => sess[t].served >= n - 1
           /\ n > 3 => (sess[t].served >= 3 /\ sess[t].fetched # <<>>
                        /\ sess[t].fetched[1] = 1)
           /\ \A k, l \in 1..Len(PagePosts(t)) :
                 k < l => FirstAt(t, PagePosts(t)[k][2]) < FirstAt(t, PagePosts(t)[l][2])
           /\ (n >= 2 /\ Clean(t)) => sess[t].sent = [f \in TokenFields |-> n - 1]

\* a session has issued its five requests, two of them page-turn postbacks,
\* and none failed
C16_Witness ==
    \E t \in PsIds :
        /\ Finished(t) /\ Clean(t)
        /\ Len(sess[t].reqs) = 5
        /\ Len(PagePosts(t)) = 2

(***************************************************************************)
(* Responses that omit hidden fields.  The first page, the response to the *)
(* region selection and each of three result pages carry all four hidden   *)
(* inputs, all but __VIEWSTATE, or none; the first result page offers the  *)
(* actions to pages 2 and 3.                                               *)
(***************************************************************************)
FieldChoices == {TokenFields, TokenFields \ {"__VIEWSTATE"}, {}}

TokenSite(home, dd, fs) ==
    [home |-> home, dd |-> dd,
     pages |-> [k \in 1..3 |->
                  [fields |-> fs[k],
                   table |-> Table(<< << DateCell(1, k, <<"2", "0", "2", "0">>) >> >>),
                   anchors |-> IF k = 1 THEN <<Link(2), Link(3)>> ELSE <<>>]]]

TokenSites ==
    {TokenSite(home, dd, fs) : home \in FieldChoices, dd \in FieldChoices,
                               fs \in [1..3 -> FieldChoices]}

TokenInit == SessionInit(TokenSites)

TokenSpec == TokenInit /\ [][PagingNext]_vars

\* the hidden inputs the n-th response received by the session carried
FieldsOfResponse(t, n) ==
    CASE n = 0 -> {}
      [] n = 1 -> SiteOf(t).home
      [] n = 2 -> SiteOf(t).dd
      [] OTHER -> SiteOf(t).pages[sess[t].fetched[n - 2]].fields

\* the last request of the session was answered
LastAnswered(t) ==
    IF Len(sess[t].reqs) <= 3 THEN sess[t].served = Len(sess[t].reqs)
    ELSE Len(PagePosts(t)) \notin Range(sess[t].failed)

\* how many responses the session had received when it sent its last request
ReceivedBeforeLast(t) ==
    IF LastAnswered(t) THEN sess[t].served - 1 ELSE sess[t].served

\* C17: the hidden values a POST carries are, field by field, the value the
\* latest response received before it gave for the field, and the empty
\* string for a field that response did not have, whatever earlier responses
\* gave for it.
C17_WholeSnapshot ==
    \A t \in PsIds :
        Len(sess[t].reqs) >= 2 =>
            \A f \in TokenFields :
                sess[t].sent[f] =
                    IF f \in FieldsOfResponse(t, ReceivedBeforeLast(t))
                    THEN ReceivedBeforeLast(t) ELSE BLANK

\* the second page-turn postback carries an empty __VIEWSTATE, which the
\* response to the first page-turn postback lacked and all the responses
\* before it had, beside the __LASTFOCUS of that response
C17_Witness ==
    \E t \in PsIds :
        /\ Len(PagePosts(t)) = 2
        /\ sess[t].failed = <<>>
        /\ SiteOf(t).home = TokenFields /\ SiteOf(t).dd = TokenFields
        /\ SiteOf(t).pages[1].fields = TokenFields
        /\ SiteOf(t).pages[2].fields = TokenFields \ {"__VIEWSTATE"}
        /\ sess[t].sent["__VIEWSTATE"] = BLANK
        /\ sess[t].sent["__LASTFOCUS"] = 4

\* all the rows of region d are in the sink
RegionWritten(d) ==
    Len(RowsOfRegion(d)) = IF found[d].list = <<>> THEN 1 ELSE Len(found[d].list)

C18_Inv ==
    /\ \A d \in DISTRICT_IDS : d < cur => RegionWritten(d)
    /\ \A d \in DISTRICT_IDS : d > cur => RowsOfRegion(d) = <<>>
    /\ mpc \in {"discover", "dpost"} =>
          /\ RowsOfRegion(cur) = <<>>
          /\ fh = {}
          /\ \A t \in PsIds : fut[t].state = "none" /\ sess[t].pc = "idle"
    /\ \A t \in PsIds :
          fut[t].state # "none" => (mpc \in {"collect", "write"} /\ t \in Range(tasks)
                                    /\ found[cur].list = tasks)
    /\ \A k, l \in 1..Len(DataRows) : k < l => DataRows[k][1] <= DataRows[l][1]

C18_Step ==
    cur' # cur =>
        /\ cur' = cur + 1
        /\ InFlight = {} /\ Pending = {}
        /\ \A t \in PsIds : fut'[t].state = "none"
        /\ \E d \in {cur} :
              Len(RowsOfRegion(d)') =
                 IF found[d].list = <<>> THEN 1 ELSE Len(found[d].list)

\* C18: main goes from a region to the next one in DISTRICT_IDS only when no
\* task of the region is queued or running and the last of its rows is
\* written; while a discovery runs no task exists and every earlier region
\* has all its rows in the sink; the tasks that exist are those of the
\* current region; the rows of the sink are in the order of their regions.
C18_RegionsInSequence == []C18_Inv /\ [][C18_Step]_vars

\* the discovery of region 2 is running after the three rows of region 1
\* were written in another order than their tasks were submitted
C18_Witness ==
    /\ cur = 2 /\ mpc = "dpost"
    /\ Len(found[1].list) = 3
    /\ Len(RowsOfRegion(1)) = 3
    /\ RowsOfRegion(1)[1][2] = found[1].list[3]

(***************************************************************************)
(* A whole run under fair scheduling: the main thread and every worker     *)
(* thread that can take a step eventually takes one, and every request     *)
(* returns or fails.                                                       *)
(***************************************************************************)
Main ==
    \/ M_Header
    \/ M_Discover
    \/ M_DiscPost
    \/ M_WriteZero
    \/ \E t \in PsIds : M_Take(t)
    \/ M_Write

FairSpec ==
    /\ Init /\ [][Next]_vars
    /\ WF_vars(Main)
    /\ \A t \in PsIds : WF_vars(Worker(t))

\* C19: whichever requests fail, main eventually reaches its end, and then
\* every region of DISTRICT_IDS has all its rows in the sink.
C19_RunCompletes ==
    /\ <>(mpc = "done")
    /\ [](mpc = "done" => \A d \in DISTRICT_IDS : RegionWritten(d))

\* main is at its end after a failed discovery and a batch in which a failed
\* task gave a zero-filled row and another task a row with a count
C19_Witness ==
    /\ mpc = "done"
    /\ \E d \in DISTRICT_IDS : ~found[d].ok
    /\ \E d \in DISTRICT_IDS :
         /\ Len(found[d].list) >= 2
         /\ \E k \in 1..Len(RowsOfRegion(d)) :
               RowsOfRegion(d)[k] = ZeroRow(d, RowsOfRegion(d)[k][2])
         /\ \E k \in 1..Len(RowsOfRegion(d)) :
               RowsOfRegion(d)[k] # ZeroRow(d, RowsOfRegion(d)[k][2])

\* one crawl session under fair scheduling: the worker thread goes on, and
\* every request returns or fails
FairPagingSpec == PagingSpec /\ \A t \in PsIds : WF_vars(Worker(t))

C20_Inv ==
    \A t \in PsIds :
        /\ \A k \in 1..Len(PagePosts(t)) : PagePosts(t)[k][2] \in PageArgs(t)
        /\ \A k, l \in 1..Len(PagePosts(t)) :
              k # l => PagePosts(t)[k][2] # PagePosts(t)[l][2]
        /\ sess[t].fetched # <<>> =>
              Len(sess[t].reqs) <= 3 + Cardinality(PageArgs(t))
        /\ sess[t].fetched = <<>> => Len(sess[t].reqs) <= 3

=============================================================================
